---- MODULE Spec2Model ----
(***************************************************************************)
(* Room coordinator of wildcard-trivia (backend/apis/rooms.py over the     *)
(* Redis store of backend/storage/store.py).                               *)
(*                                                                         *)
(* The state is the content of the Redis keys of one room (every key of    *)
(* the store is prefixed by the room id, so rooms do not share state) and  *)
(* the local variables of the requests in flight.  The handlers are        *)
(* coroutines of one asyncio event loop and the store calls are            *)
(* synchronous: a handler runs without interruption from one `await` to    *)
(* the next, and another request can run at each `await`.  Every action    *)
(* below is the code of a handler between two consecutive awaits.          *)
(*                                                                         *)
(* Strings are sequences of one-character strings, so that strip() and     *)
(* lower() are computed and not assumed.                                   *)
(***************************************************************************)
EXTENDS Integers, Sequences, FiniteSets, TLC

\* ---------------------------------------------------------------- bounds
MaxPlayers == 2      \* players that can be created in the room
MaxReq == 2          \* requests in flight at once
MaxRequests == 3     \* start, submit-topic and submit-answer requests accepted
MaxSockets == 1      \* WebSocket clients of the room
MaxClients == 2      \* WebSocket clients of the room, where only broadcasts are followed
MaxBroadcasts == 3   \* broadcasts issued to the room, where only broadcasts are followed
MaxStatsRounds == 3  \* rounds played, where the rate of the game stats is read
MaxStatsPerRound == 4  \* questions per round, where the rate of the game stats is read
MaxAwardsPlayers == 4  \* players, where the awards of the game stats are read
MaxAwardsQuestions == 3  \* questions played, where the awards of the game stats are read

\* ------------------------------------------------------- program constants
Points == 100        \* points for a correct answer
MaxTopicLen == 50    \* longest topic submit_topic accepts

\* ------------------------------------------------------------ input sets
JoinTopicInputs == { <<" ", "a">>, <<" ">> }
TopicInputs == { <<"a">>, <<"b">>, <<" ", "a">>, <<" ">> }
AnswerInputs == { <<"c">>, <<" ", "C">>, <<"B">>, <<"2">> }
NumRoundsInputs == {2}
QuestionsPerRoundInputs == {1}
TimePerQuestionInputs == {1}
\* configurations with a field that is zero or negative
NonPositiveConfigInputs ==
    { [questionsPerRound |-> 0, timePerQuestion |-> 1, numRounds |-> 2],
      [questionsPerRound |-> 1, timePerQuestion |-> 0, numRounds |-> 2],
      [questionsPerRound |-> 1, timePerQuestion |-> 1, numRounds |-> 0],
      [questionsPerRound |-> -1, timePerQuestion |-> -1, numRounds |-> -1] }
HostTopicsInputs == { <<>>, << <<"a">> >> }
SessionModes == {"player", "display"}
\* the name of the room, which is the name of its host
RoomNameInputs == { <<"h">> }
\* the names players give when they join
PlayerNameInputs == { <<"h">>, <<"p">> }
HostToken == <<"host">>
\* the host token, a request without the hosttoken header, a wrong token
HostTokenInputs == { HostToken, <<>>, <<"x">> }

\* the name the i-th player gives in a room where every player has a name of
\* their own
FreshName(i) == << <<"p", "q", "r", "s">>[i] >>

Slots == 1..MaxReq
Sockets == 1..MaxSockets
Clients == 1..MaxClients
\* the broadcasts of the room, numbered in the order their requests issue them
Broadcasts == 1..MaxBroadcasts
\* conn.send_text returns at once, is still pending when the caller is suspended,
\* or raises
SendOutcomes == {"sent", "pending", "raised"}
PlayerIds == 1..MaxPlayers
\* a player of another room
OtherRoomPlayer == MaxPlayers + 1
\* <<p>> is the token issued to player p (no player has it before p is created),
\* <<>> a request without the playertoken header, <<OtherRoomPlayer>> the token
\* issued to a player of another room
PlayerTokenInputs == { <<p>> : p \in PlayerIds } \cup { <<>>, <<OtherRoomPlayer>> }
Rounds == 1..(MaxRequests + 2)

VARIABLES
    room,            \* hash room:{id}
    players,         \* hashes player:{id} of the set room:{id}:players, by player id
    room_scores,     \* sorted set room:{id}:scores, by player id
    room_topics,     \* sets room:{id}:{round}:topics
    room_questions,  \* lists room:{id}:{round}:questions
    answered,        \* sets room:{id}:q:{question}:answered, as pairs <<question, player>>
    group_correct,   \* questions whose group-correct flag is set
    connections,     \* manager.active_connections[room_id]: the sockets of the room
    req,             \* the requests in flight: their position and local variables
    last,            \* the response sent by the last step, with the locals of its request
    gen_calls,       \* history: calls of the question generator, by round
    awarded,         \* history: points of the submissions judged correct, by player
    contributed,     \* history: <<round, player>> for every topic a player submitted
    nreqs,           \* history: start, submit-topic and submit-answer requests accepted
    wire,            \* the messages handed to each socket, in order
    sending,         \* the calls of broadcast_to_room: position, pending sends, `disconnected`
    others           \* manager.active_connections of another room: its sockets

vars == <<room, players, room_scores, room_topics, room_questions, answered,
          group_correct, connections, req, last, gen_calls, awarded, contributed,
          nreqs, wire, sending, others>>

\* ------------------------------------------------------------- strings
IsSpace(c) == c = " "

RECURSIVE lstrip(_)
lstrip(s) == IF s # <<>> /\ IsSpace(Head(s)) THEN lstrip(Tail(s)) ELSE s

RECURSIVE rstrip(_)
rstrip(s) ==
    IF s # <<>> /\ IsSpace(s[Len(s)]) THEN rstrip(SubSeq(s, 1, Len(s) - 1)) ELSE s

strip(s) == rstrip(lstrip(s))

lower_char(c) ==
    CASE c = "A" -> "a" [] c = "B" -> "b" [] c = "C" -> "c" [] c = "D" -> "d"
      [] OTHER -> c

\* a plausible slip: the case is kept
lower_keeps_case(s) == s

lower(s) == [i \in 1..Len(s) |-> lower_char(s[i])]

\* ------------------------------------------------------- the Redis store
NoRoom ==
    [exists |-> FALSE, status |-> "none", current_round |-> 1, num_rounds |-> 1,
     questions_per_round |-> 1, time_per_question |-> 1, topics |-> <<>>,
     started_at |-> 0, host_name |-> <<>>]

\* RoomStore.create_room: the hash of a new room
RoomStore_create_room(name, topics, questions_per_round, time_per_question, num_rounds) ==
    [exists |-> TRUE, status |-> "waiting", current_round |-> 1,
     num_rounds |-> num_rounds, questions_per_round |-> questions_per_round,
     time_per_question |-> time_per_question,
     topics |-> topics, started_at |-> 0, host_name |-> name]

\* RoomStore.update_room_status: hset of status and, when given, started_at
RoomStore_update_room_status(rm, status, started_at) ==
    [rm EXCEPT !.status = status,
               !.started_at = IF started_at # 0 THEN started_at ELSE @]

\* a plausible slip: the room is finished when its last round is reached
RoomStore_update_room_round_finishes(rm, current_round, started_at) ==
    [rm EXCEPT !.current_round = current_round,
               !.started_at = IF started_at # 0 THEN started_at ELSE @,
               !.status = IF current_round >= rm.num_rounds THEN "finished" ELSE @]

\* RoomStore.update_room_round: hset of current_round and, when given, started_at
RoomStore_update_room_round(rm, current_round, started_at) ==
    [rm EXCEPT !.current_round = current_round,
               !.started_at = IF started_at # 0 THEN started_at ELSE @]

\* datetime.now(): a reading of the clock later than the stamp the room holds
now == room.started_at + 1

\* the per-topic scores of a player: points by topic, none at first
NoTopicScore == [t \in {} |-> 0]

\* PlayerStore.create_player: the next player id, its hash with score 0
PlayerStore_create_player(ps, player_name) ==
    Append(ps, [score |-> 0, player_name |-> player_name, topic_score |-> NoTopicScore])

\* zadd of a member of the sorted set
zadd(zs, member, score) ==
    [m \in DOMAIN zs \cup {member} |-> IF m = member THEN score ELSE zs[m]]

\* PlayerStore.get_players_by_room: the ids of the room's players
PlayerStore_get_players_by_room == DOMAIN players

\* PlayerStore.get_player_by_token: the player id, 0 for None
PlayerStore_get_player_by_token(token) ==
    IF token # <<>> /\ token[1] \in DOMAIN players \cup {OtherRoomPlayer}
    THEN token[1] ELSE 0

\* a plausible slip: the room of the player is not compared
belongs_to_any_room(player) == TRUE

\* player.room_id == room_uuid
belongs_to_room(player) == player \in PlayerStore_get_players_by_room

\* TopicStore.add_topic: sadd of the stripped topic
TopicStore_add_topic(ts, topic, round) ==
    [ts EXCEPT ![round] = @ \cup {strip(topic)}]

\* TopicStore.get_topics: the non-empty members
TopicStore_get_topics(ts, round) == {t \in ts[round] : t # <<>>}

Idle ==
    [pc |-> "idle", kind |-> "none", player |-> 0, next_round |-> 0, topics |-> {},
     submitted_count |-> 0, total_players |-> 0, questions_per_round |-> 0,
     question_id |-> <<>>, is_correct |-> FALSE, points |-> 0, current_score |-> 0,
     n_questions |-> 0, all_answered |-> FALSE, events |-> <<>>,
     status_read |-> "none", round_read |-> 0, pre_count |-> 0, fresh |-> FALSE,
     gens |-> 0, advs |-> 0, subscribed |-> {}, delivered |-> [c \in Clients |-> <<>>],
     leaderboard |-> <<>>,
     stats |-> [groupCorrectRate |-> 0, totalQuestions |-> 0, awards |-> <<>>]]

\* `disconnected` is history: the sockets whose send failed in the last broadcast
\* of the step
NoResponse == [kind |-> "none", code |-> 0, r |-> Idle, disconnected |-> {}]

\* a broadcast that was not issued yet
NotSending == [pc |-> "none", pending |-> {}, disconnected |-> {}]

Init ==
    /\ room = NoRoom
    /\ players = <<>>
    /\ room_scores = <<>>
    /\ room_topics = [r \in Rounds |-> {}]
    /\ room_questions = [r \in Rounds |-> <<>>]
    /\ answered = {}
    /\ group_correct = {}
    /\ connections = {}
    /\ req = [s \in Slots |-> Idle]
    /\ last = NoResponse
    /\ gen_calls = [r \in Rounds |-> 0]
    /\ awarded = <<>>
    /\ contributed = {}
    /\ nreqs = 0
    /\ wire = [c \in Clients |-> <<>>]
    /\ sending = [m \in Broadcasts |-> NotSending]
    /\ others = {}

\* a request is taken by the lowest free slot, while fewer than MaxRequests
\* requests were accepted
FreeSlot(s) ==
    /\ nreqs < MaxRequests
    /\ req[s].pc = "idle"
    /\ \A t \in Slots : t < s => req[t].pc # "idle"

\* the response of a request: its slot is free again
Respond(s, r, code) ==
    /\ last' = [kind |-> r.kind, code |-> code, r |-> r, disconnected |-> {}]
    /\ req' = [req EXCEPT ![s] = Idle]
    /\ UNCHANGED <<wire, sending, others>>

\* a step that sends no response
Quiet ==
    /\ last' = NoResponse
    /\ UNCHANGED <<wire, sending, others>>

\* a request that raises HTTPException before it changed anything
Reject(kind, code) ==
    /\ last' = [kind |-> kind, code |-> code, r |-> Idle, disconnected |-> {}]
    /\ UNCHANGED <<room, players, room_scores, room_topics, room_questions, answered,
                   group_correct, connections, req, gen_calls, awarded, contributed,
                   nreqs, wire, sending, others>>

\* the same, where the response is told apart by the locals r of the request
RejectRequest(kind, code, r) ==
    /\ last' = [kind |-> kind, code |-> code, r |-> r, disconnected |-> {}]
    /\ UNCHANGED <<room, players, room_scores, room_topics, room_questions, answered,
                   group_correct, connections, req, gen_calls, awarded, contributed,
                   nreqs, wire, sending, others>>

\* --------------------------------------------------------------- WebSocket
\* ConnectionManager.connect
ConnectionManager_connect(conns, websocket) == conns \cup {websocket}

\* ConnectionManager.disconnect
ConnectionManager_disconnect(conns, websocket) == conns \ {websocket}

\* a plausible slip: the sockets whose send failed are not removed
ConnectionManager_broadcast_to_room_keeps_failed(conns, failed) ==
    [sent |-> conns \ failed, active |-> conns, disconnected |-> failed]

\* a plausible slip: a send that fails ends the broadcast
ConnectionManager_broadcast_to_room_stops_at_failure(conns, failed) ==
    [sent |-> IF failed = {} THEN conns ELSE {}, active |-> conns \ failed,
     disconnected |-> failed]

\* ConnectionManager.broadcast_to_room: the message is sent to every socket of the
\* room, all sends are awaited, and the sockets whose send failed are removed
ConnectionManager_broadcast_to_room(conns, failed) ==
    [sent |-> conns \ failed, active |-> conns \ failed, disconnected |-> failed]

\* the request r has issued the event and awaited its broadcast b
Issue(r, type, b) ==
    [r EXCEPT !.events = Append(@, type),
              !.delivered = [c \in Clients |->
                                IF c \in b.sent THEN Append(@[c], type) ELSE @[c]],
              !.subscribed = @ \cap b.active]

\* history: the sockets that left are subscribers of no request in flight
Subscribed(rq, active) ==
    [t \in Slots |-> [rq[t] EXCEPT !.subscribed = @ \cap active]]

\* the response of a request whose last broadcast was b
RespondAfter(s, r, code, b) ==
    /\ last' = [kind |-> r.kind, code |-> code, r |-> r,
                disconnected |-> b.disconnected]
    /\ req' = Subscribed([req EXCEPT ![s] = Idle], b.active)
    /\ UNCHANGED <<wire, sending, others>>

\* GET /ws/{room_id}: a client opens a socket
connect(websocket) ==
    /\ websocket \notin connections \cup others
    /\ connections' = ConnectionManager_connect(connections, websocket)
    /\ Quiet
    /\ UNCHANGED <<room, players, room_scores, room_topics, room_questions, answered,
                   group_correct, req, gen_calls, awarded, contributed, nreqs>>

\* the client closes the socket
disconnect(websocket) ==
    /\ websocket \in connections
    /\ connections' = ConnectionManager_disconnect(connections, websocket)
    /\ req' = Subscribed(req, connections')
    /\ Quiet
    /\ UNCHANGED <<room, players, room_scores, room_topics, room_questions, answered,
                   group_correct, gen_calls, awarded, contributed, nreqs>>

\* GET /ws/{room_id} of another room: a client opens a socket there; a socket is
\* opened for one room
connect_other(websocket) ==
    /\ websocket \notin connections \cup others
    /\ others' = ConnectionManager_connect(others, websocket)
    /\ last' = NoResponse
    /\ UNCHANGED <<room, players, room_scores, room_topics, room_questions, answered,
                   group_correct, connections, req, gen_calls, awarded, contributed,
                   nreqs, wire, sending>>

\* the client closes the socket of the other room
disconnect_other(websocket) ==
    /\ websocket \in others
    /\ others' = ConnectionManager_disconnect(others, websocket)
    /\ last' = NoResponse
    /\ UNCHANGED <<room, players, room_scores, room_topics, room_questions, answered,
                   group_correct, connections, req, gen_calls, awarded, contributed,
                   nreqs, wire, sending>>

\* a plausible slip: the sockets of every room of the manager
active_connections_of_every_room(conns, other) == conns \cup other

\* self.active_connections[room_id]: the sockets registered under the room
active_connections(conns, other) == conns

\* a plausible slip: the message reaches the socket only when the send returns
handed_over_on_return(outcome) == outcome = "sent"

\* conn.send_text: the message is handed to the socket when the send is called,
\* unless the call raises at once
handed_over(outcome) == outcome # "raised"

\* ConnectionManager.broadcast_to_room, up to `await asyncio.gather`: the sockets
\* of the room are copied and one send is started for each, in one go
broadcast_to_room(m) ==
    /\ sending[m].pc = "none"
    /\ \A k \in Broadcasts : k < m => sending[k].pc # "none"
    /\ LET conns == active_connections(connections, others) IN
       IF conns = {}
       THEN /\ sending' = [sending EXCEPT ![m].pc = "returned"]
            /\ UNCHANGED wire
       ELSE \E outcome \in [conns -> SendOutcomes] :
                /\ wire' = [c \in Clients |->
                                IF c \in conns /\ handed_over(outcome[c])
                                THEN Append(wire[c], m) ELSE wire[c]]
                /\ sending' =
                       [sending EXCEPT ![m] =
                           [pc |-> "gather",
                            pending |-> {c \in conns : outcome[c] = "pending"},
                            disconnected |-> {c \in conns : outcome[c] = "raised"}]]
    /\ last' = NoResponse
    /\ UNCHANGED <<room, players, room_scores, room_topics, room_questions, answered,
                   group_correct, connections, req, gen_calls, awarded, contributed,
                   nreqs, others>>

\* send_to_connection: a pending send returns, or raises and the socket is put
\* in `disconnected`
send_to_connection(m, conn, outcome) ==
    /\ sending[m].pc = "gather"
    /\ conn \in sending[m].pending
    /\ outcome # "pending"
    /\ wire' = [wire EXCEPT ![conn] =
                    IF outcome = "sent" /\ ~handed_over("pending")
                    THEN Append(@, m) ELSE @]
    /\ sending' = [sending EXCEPT
                       ![m].pending = @ \ {conn},
                       ![m].disconnected =
                           IF outcome = "raised" THEN @ \cup {conn} ELSE @]
    /\ last' = NoResponse
    /\ UNCHANGED <<room, players, room_scores, room_topics, room_questions, answered,
                   group_correct, connections, req, gen_calls, awarded, contributed,
                   nreqs, others>>

\* the clean-up of broadcast_to_room: the sockets whose send raised leave the registry
dropped(conns, disconnected) == conns \ disconnected

\* ConnectionManager.broadcast_to_room after the gather: the clean-up and the return
broadcast_to_room_return(m) ==
    /\ sending[m].pc = "gather"
    /\ sending[m].pending = {}
    /\ connections' = dropped(connections, sending[m].disconnected)
    /\ sending' = [sending EXCEPT ![m].pc = "returned"]
    /\ req' = Subscribed(req, connections')
    /\ last' = NoResponse
    /\ UNCHANGED <<room, players, room_scores, room_topics, room_questions, answered,
                   group_correct, gen_calls, awarded, contributed, nreqs, wire,
                   others>>

\* ------------------------------------------------------------ create room
\* POST /api/rooms
create_room(name, topics, questions_per_round, time_per_question, num_rounds, sessionMode) ==
    /\ ~room.exists
    /\ room' = RoomStore_create_room(name, topics, questions_per_round,
                                     time_per_question, num_rounds)
    /\ room_topics' =
           LET seed[i \in 0..Len(topics)] ==
                   IF i = 0 THEN room_topics
                   ELSE IF strip(topics[i]) # <<>>
                        THEN TopicStore_add_topic(seed[i - 1], strip(topics[i]), 1)
                        ELSE seed[i - 1]
           IN seed[Len(topics)]
    /\ IF sessionMode = "player"
       THEN /\ players' = PlayerStore_create_player(players, name)
            /\ room_scores' = zadd(room_scores, Len(players'), 0)
            /\ awarded' = Append(awarded, 0)
       ELSE UNCHANGED <<players, room_scores, awarded>>
    /\ last' = [kind |-> "create", code |-> 201, r |-> Idle, disconnected |-> {}]
    /\ UNCHANGED <<room_questions, answered, group_correct, connections, req,
                   gen_calls, contributed, nreqs, wire, sending, others>>

\* ---------------------------------------------------------------- join room
\* a plausible slip: only a finished room refuses players
join_precondition_not_finished(rm) == rm.status # "finished"

\* the lifecycle precondition of join_room
join_precondition(rm) == rm.status = "waiting"

\* POST /api/rooms/{room_id}/join
join_room(playerName, topic) ==
    IF ~room.exists THEN Reject("join", 404)
    ELSE IF ~join_precondition(room) THEN Reject("join", 400)
    ELSE IF strip(topic) = <<>> THEN Reject("join", 400)
    ELSE /\ Len(players) < MaxPlayers
         /\ players' = PlayerStore_create_player(players, playerName)
         /\ room_scores' = zadd(room_scores, Len(players'), 0)
         /\ awarded' = Append(awarded, 0)
         /\ room_topics' = TopicStore_add_topic(room_topics, topic, 1)
         /\ contributed' = contributed \cup {<<1, Len(players')>>}
         /\ \E failed \in SUBSET connections :
                LET b == ConnectionManager_broadcast_to_room(connections, failed)
                    r0 == [Idle EXCEPT !.kind = "join", !.player = Len(players'),
                                       !.subscribed = connections]
                IN /\ connections' = b.active
                   /\ req' = Subscribed(req, b.active)
                   /\ last' = [kind |-> "join", code |-> 200,
                               r |-> Issue(r0, "player_joined", b),
                               disconnected |-> b.disconnected]
         /\ UNCHANGED <<room, room_questions, answered, group_correct, gen_calls,
                        nreqs, wire, sending, others>>

\* ------------------------------------------------------ question generator
\* a question as the prompt asks for it: four options and the index of one
LLMQuestion ==
    [topics |-> << <<"a">>, <<"b">> >>,
     options |-> << <<"A">>, <<"B">>, <<"C">>, <<"D">> >>, correct_answer |-> 2]

\* questions the provider may return all the same: three options and an index
\* past them, or five options and a negative index
MalformedQuestions ==
    {[topics |-> << <<"a">>, <<"b">> >>,
      options |-> << <<"A">>, <<"B">>, <<"C">> >>, correct_answer |-> 3],
     [topics |-> << <<"a">>, <<"b">> >>,
      options |-> << <<"A">>, <<"B">>, <<"C">>, <<"D">>, <<"E">> >>,
      correct_answer |-> -1]}

\* What the provider answers: a failed or empty call (RuntimeError), a reply that
\* is no JSON list (ValueError), or a JSON list of n questions.
GenOutcomes(count) ==
    {[ok |-> FALSE, n |-> 0, error |-> "RuntimeError", question |-> LLMQuestion],
     [ok |-> FALSE, n |-> 0, error |-> "ValueError", question |-> LLMQuestion],
     [ok |-> TRUE, n |-> IF count > 0 THEN count ELSE 0, error |-> "none",
      question |-> LLMQuestion]}

\* the provider answers a JSON list of n questions that are not as the prompt
\* asks
MalformedGenOutcomes(count) ==
    {[ok |-> TRUE, n |-> IF count > 0 THEN count ELSE 0, error |-> "none",
      question |-> q] : q \in MalformedQuestions}

\* the provider answers a JSON list of fewer questions than asked for, none
\* included, or of one more
UnevenGenOutcomes(count) ==
    {[ok |-> TRUE, n |-> n, error |-> "none", question |-> LLMQuestion] :
        n \in (0..(count + 1)) \ {count}}

\* a plausible slip: the error of the provider is swallowed and no question returned
raises_never(outcome) == FALSE

\* generate_questions_with_llm raises
raises(outcome) == ~outcome.ok

\* the except clauses of the handlers: ValueError is a 400, any other error a 500
error_code(outcome) == IF outcome.error = "ValueError" THEN 400 ELSE 500

\* the formatting of a returned question: options[:4] and int(correct_answer)
format_question(q) ==
    [topics |-> q.topics,
     options |-> SubSeq(q.options, 1, IF Len(q.options) < 4 THEN Len(q.options) ELSE 4),
     correct_answer |-> q.correct_answer]

\* generate_questions_with_llm: formatted[:count], where a negative count is
\* counted from the end of the list
generate_questions_with_llm(topics, count, outcome) ==
    LET stop == IF count >= 0 THEN count ELSE outcome.n + count IN
    [i \in 1..(IF outcome.n < stop THEN outcome.n ELSE stop) |->
        format_question(outcome.question)]

\* QuestionStore.create_questions: rpush of every question on the round's list
QuestionStore_create_questions(qs, round, questions) ==
    [qs EXCEPT ![round] = @ \o questions]

\* a plausible slip: the questions of every round
QuestionStore_get_questions_of_all_rounds ==
    UNION {{<<r, i>> : i \in 1..Len(room_questions[r])} : r \in Rounds}

\* QuestionStore.get_questions_by_room: the questions of the stored current round;
\* a question id is its round and its place in the round's list
QuestionStore_get_questions_by_room ==
    {<<room.current_round, i>> : i \in 1..Len(room_questions[room.current_round])}

\* the ids of the questions created so far, of any round, and <<0, 1>>, the id
\* of no question
QuestionIdInputs ==
    {<<0, 1>>} \cup UNION {{<<r, i>> : i \in 1..Len(room_questions[r])} : r \in Rounds}

\* --------------------------------------------------------------- start game
\* a plausible slip: only a finished room refuses to start
start_precondition_not_finished(rm) == rm.status # "finished"

\* the lifecycle precondition of start_game
start_precondition(rm) == rm.status = "waiting"

\* a plausible slip: a room without topics is given a topic
start_topics_with_default(collected_topics, rm) ==
    IF collected_topics # {} THEN collected_topics
    ELSE IF rm.topics # <<>> THEN {rm.topics[i] : i \in 1..Len(rm.topics)}
    ELSE { <<"a">> }

\* the topics of round 1: the collected ones, else the ones of the room
start_topics(collected_topics, rm) ==
    IF collected_topics # {} THEN collected_topics
    ELSE {rm.topics[i] : i \in 1..Len(rm.topics)}

\* POST /api/rooms/{room_id}/start, up to `await _generate_questions_audio`
start_game(s, hostToken, outcome) ==
    LET collected_topics == TopicStore_get_topics(room_topics, 1)
        topics_to_use == start_topics(collected_topics, room)
        sample_questions ==
            generate_questions_with_llm(topics_to_use, room.questions_per_round, outcome)
        r0 == [Idle EXCEPT !.kind = "start", !.status_read = room.status,
                           !.round_read = room.current_round, !.gens = 1,
                           !.subscribed = connections]
    IN
    /\ FreeSlot(s)
    /\ IF hostToken = <<>> THEN Reject("start", 401)
       ELSE IF ~room.exists THEN Reject("start", 404)
       ELSE IF HostToken # hostToken THEN Reject("start", 403)
       ELSE IF ~start_precondition(room) THEN Reject("start", 400)
       ELSE IF PlayerStore_get_players_by_room = {} THEN Reject("start", 400)
       ELSE IF topics_to_use = {} THEN Reject("start", 400)
       ELSE /\ nreqs' = nreqs + 1
            /\ gen_calls' = [gen_calls EXCEPT ![1] = @ + 1]
            /\ IF raises(outcome)
               THEN /\ last' = [kind |-> "start", code |-> error_code(outcome), r |-> r0,
                                disconnected |-> {}]
                    /\ UNCHANGED <<room_questions, req, wire, sending, others>>
               ELSE /\ room_questions' =
                           QuestionStore_create_questions(room_questions, 1, sample_questions)
                    /\ req' = [req EXCEPT ![s] =
                                  [r0 EXCEPT !.pc = "start_commit",
                                             !.n_questions = Len(sample_questions)]]
                    /\ Quiet
            /\ UNCHANGED <<room, players, room_scores, room_topics, answered,
                           group_correct, connections, awarded, contributed>>

\* start_game after the audio: update_room_status and the game_started broadcast
start_game_commit(s) ==
    /\ req[s].pc = "start_commit"
    /\ room' = RoomStore_update_room_status(room, "started", now)
    /\ \E failed \in SUBSET connections :
           LET b == ConnectionManager_broadcast_to_room(connections, failed)
           IN /\ connections' = b.active
              /\ RespondAfter(s, Issue(req[s], "game_started", b), 200, b)
    /\ UNCHANGED <<players, room_scores, room_topics, room_questions, answered,
                   group_correct, gen_calls, awarded, contributed, nreqs>>

\* ------------------------------------------------------------ submit answer
\* a plausible slip: the points replace the score
PlayerStore_update_player_score_overwrites(ps, zs, player_id, points, topics) ==
    [players |-> [ps EXCEPT ![player_id].score = points],
     scores |-> zadd(zs, player_id, points)]

\* a plausible slip: the sorted set is not told the new score
PlayerStore_update_player_score_without_zadd(ps, zs, player_id, points, topics) ==
    [players |-> [ps EXCEPT ![player_id].score = @ + points],
     scores |-> zs]

\* a plausible slip: the sorted set is given the score that was read
PlayerStore_update_player_score_zadd_of_read_score(ps, zs, player_id, points, topics) ==
    [players |-> [ps EXCEPT ![player_id].score = @ + points],
     scores |-> zadd(zs, player_id, ps[player_id].score)]

\* a plausible slip: the points are added to the score of the player once only
PlayerStore_update_player_score_once(ps, zs, player_id, points, topics) ==
    IF ps[player_id].score >= points
    THEN [players |-> ps, scores |-> zs]
    ELSE [players |-> [ps EXCEPT ![player_id].score = @ + points],
          scores |-> zadd(zs, player_id, ps[player_id].score + points)]

\* a plausible slip: the topics of the question are not credited
PlayerStore_update_player_score_without_topics(ps, zs, player_id, points, topics) ==
    [players |-> [ps EXCEPT ![player_id].score = @ + points],
     scores |-> zadd(zs, player_id, ps[player_id].score + points)]

\* PlayerStore.update_player_score: the player's hash and the sorted set
PlayerStore_update_player_score(ps, zs, player_id, points, topics) ==
    LET new_score == ps[player_id].score + points
        old == ps[player_id].topic_score
        add[i \in 0..Len(topics)] ==
            IF i = 0 THEN old
            ELSE [t \in DOMAIN add[i - 1] \cup {topics[i]} |->
                     (IF t \in DOMAIN add[i - 1] THEN add[i - 1][t] ELSE 0)
                     + (IF t = topics[i] THEN points ELSE 0)]
        topic_score == IF topics # <<>> /\ points > 0 THEN add[Len(topics)] ELSE old
    IN
    [players |-> [ps EXCEPT ![player_id].score = new_score,
                            ![player_id].topic_score = topic_score],
     scores |-> zadd(zs, player_id, new_score)]

\* QuestionStore.record_question_group_correct: the group-correct flag of the question
QuestionStore_record_question_group_correct(gc, question_id) == gc \cup {question_id}

\* a plausible slip: the count must exceed the number of players
QuestionStore_record_answer_and_check_all_strict(ans, question_id, player_id) ==
    LET added == ans \cup {<<question_id, player_id>>}
        answered_count == Cardinality({a \in added : a[1] = question_id})
        total_players == Cardinality(DOMAIN players)
        effective_total == IF total_players > 1 THEN total_players ELSE 1
    IN [answered |-> added, all_done |-> answered_count > effective_total]

\* QuestionStore.record_answer_and_check_all: sadd, then scard against the players
QuestionStore_record_answer_and_check_all(ans, question_id, player_id) ==
    LET added == ans \cup {<<question_id, player_id>>}
        answered_count == Cardinality({a \in added : a[1] = question_id})
        total_players == Cardinality(PlayerStore_get_players_by_room)
        effective_total == IF total_players > 1 THEN total_players ELSE 1
    IN [answered |-> added, all_done |-> answered_count >= effective_total]

\* list[i] raises IndexError
IndexError(list, i) == i >= Len(list) \/ i < -Len(list)

\* list[i]: a negative index counts from the end
item(list, i) == IF i >= 0 THEN list[i + 1] ELSE list[Len(list) + i + 1]

\* a plausible slip: only a finished room refuses answers
answer_precondition_not_finished(rm) == rm.status # "finished"

\* the lifecycle precondition of submit_answer
answer_precondition(rm) == rm.status = "started"

\* POST /api/rooms/{room_id}/submit-answer, up to the answer_submitted broadcast
submit_answer(s, playerToken, questionId, answer) ==
    LET player == PlayerStore_get_player_by_token(playerToken) IN
    /\ FreeSlot(s)
    /\ IF playerToken = <<>> THEN Reject("answer", 401)
       ELSE IF ~room.exists THEN Reject("answer", 404)
       ELSE IF ~answer_precondition(room) THEN Reject("answer", 400)
       ELSE IF player = 0 THEN Reject("answer", 404)
       ELSE IF ~belongs_to_room(player) THEN Reject("answer", 403)
       ELSE IF questionId \notin QuestionStore_get_questions_by_room
       THEN RejectRequest("answer", 404,
                          [Idle EXCEPT !.kind = "answer", !.player = player,
                                       !.question_id = questionId,
                                       !.status_read = room.status,
                                       !.round_read = room.current_round])
       ELSE IF LET question == room_questions[questionId[1]][questionId[2]]
               IN IndexError(question.options, question.correct_answer)
       THEN RejectRequest("answer", 500,
                          [Idle EXCEPT !.kind = "answer", !.player = player,
                                       !.question_id = questionId,
                                       !.status_read = room.status,
                                       !.round_read = room.current_round])
       ELSE LET question == room_questions[questionId[1]][questionId[2]]
                correct_answer_option == item(question.options, question.correct_answer)
                is_correct == strip(lower(answer)) = strip(lower(correct_answer_option))
                points == IF is_correct THEN Points ELSE 0
                updated == PlayerStore_update_player_score(players, room_scores,
                                                           player, points,
                                                           question.topics)
            IN /\ nreqs' = nreqs + 1
               /\ IF points > 0
                  THEN /\ players' = updated.players
                       /\ room_scores' = updated.scores
                       /\ group_correct' =
                              QuestionStore_record_question_group_correct(group_correct,
                                                                          questionId)
                       /\ awarded' = [awarded EXCEPT ![player] = @ + points]
                  ELSE UNCHANGED <<players, room_scores, group_correct, awarded>>
               /\ \E failed \in SUBSET connections :
                      LET b == ConnectionManager_broadcast_to_room(connections, failed)
                          r0 == [Idle EXCEPT !.pc = "answer_record", !.kind = "answer",
                                             !.status_read = room.status,
                                             !.round_read = room.current_round,
                                             !.player = player,
                                             !.question_id = questionId,
                                             !.is_correct = is_correct,
                                             !.points = points,
                                             !.current_score = players'[player].score,
                                             !.subscribed = connections]
                      IN /\ connections' = b.active
                         /\ req' = Subscribed([req EXCEPT ![s] =
                                                  Issue(r0, "answer_submitted", b)],
                                              b.active)
               /\ Quiet
               /\ UNCHANGED <<room, room_topics, room_questions, answered, gen_calls,
                              contributed>>

\* submit_answer after the broadcast: record_answer_and_check_all and the
\* all_answers_submitted broadcast
submit_answer_record(s) ==
    /\ req[s].pc = "answer_record"
    /\ LET rec == QuestionStore_record_answer_and_check_all(answered, req[s].question_id,
                                                            req[s].player)
           r1 == [req[s] EXCEPT !.all_answered = rec.all_done]
       IN /\ answered' = rec.answered
          /\ IF rec.all_done
             THEN \E failed \in SUBSET connections :
                      LET b == ConnectionManager_broadcast_to_room(connections, failed)
                      IN /\ connections' = b.active
                         /\ RespondAfter(s, Issue(r1, "all_answers_submitted", b),
                                         200, b)
             ELSE /\ Respond(s, r1, 200)
                  /\ UNCHANGED connections
    /\ UNCHANGED <<room, players, room_scores, room_topics, room_questions,
                   group_correct, gen_calls, awarded, contributed, nreqs>>

\* ------------------------------------------------------------- leaderboard
\* ZREVRANGE 0 -1: the members by descending score, equal scores by descending member
RECURSIVE zrevrange(_)
zrevrange(zs) ==
    IF DOMAIN zs = {} THEN <<>>
    ELSE LET m == CHOOSE x \in DOMAIN zs :
                      \A y \in DOMAIN zs : zs[y] < zs[x] \/ (zs[y] = zs[x] /\ y <= x)
         IN <<m>> \o zrevrange([y \in DOMAIN zs \ {m} |-> zs[y]])

\* PlayerStore.get_leaderboard: the hashes of the members of the sorted set, in
\* its order; a member without a hash is left out
PlayerStore_get_leaderboard(ps, zs) ==
    LET ids == zrevrange(zs)
        found == SelectSeq(ids, LAMBDA id : id \in DOMAIN ps)
    IN [i \in 1..Len(found) |-> [playerId |-> found[i], score |-> ps[found[i]].score]]

\* GET /api/rooms/{room_id}/leaderboard
get_leaderboard ==
    IF ~room.exists THEN Reject("leaderboard", 404)
    ELSE /\ last' = [kind |-> "leaderboard", code |-> 200,
                     r |-> [Idle EXCEPT !.kind = "leaderboard",
                                        !.leaderboard =
                                            PlayerStore_get_leaderboard(players,
                                                                        room_scores)],
                     disconnected |-> {}]
         /\ UNCHANGED <<room, players, room_scores, room_topics, room_questions,
                        answered, group_correct, connections, req, gen_calls, awarded,
                        contributed, nreqs, wire, sending, others>>

\* ------------------------------------------------------------- submit topic
\* the round a submitted topic is collected for
next_round_of(rm) == rm.current_round + 1

\* POST /api/rooms/{room_id}/submit-topic, up to the topic_submitted broadcast
submit_topic(s, playerToken, topic_text) ==
    LET player == PlayerStore_get_player_by_token(playerToken)
        topic == strip(topic_text)
        next_round == next_round_of(room)
        added == TopicStore_add_topic(room_topics, topic, next_round)
        topics == TopicStore_get_topics(added, next_round)
    IN
    /\ FreeSlot(s)
    /\ IF playerToken = <<>> THEN Reject("topic", 401)
       ELSE IF ~room.exists THEN Reject("topic", 404)
       ELSE IF player = 0 THEN Reject("topic", 404)
       ELSE IF ~belongs_to_room(player) THEN Reject("topic", 403)
       ELSE IF topic = <<>> THEN Reject("topic", 400)
       ELSE IF Len(topic) > MaxTopicLen THEN Reject("topic", 400)
       ELSE /\ nreqs' = nreqs + 1
            /\ room_topics' = added
            /\ contributed' = contributed \cup {<<next_round, player>>}
            /\ \E failed \in SUBSET connections :
                LET b == ConnectionManager_broadcast_to_room(connections, failed)
                    r0 ==
                          [Idle EXCEPT !.pc = "topic_submitted", !.kind = "topic",
                                       !.status_read = room.status,
                                       !.round_read = room.current_round,
                                       !.player = player,
                                       !.next_round = next_round,
                                       !.topics = topics,
                                       !.submitted_count = Cardinality(topics),
                                       !.total_players =
                                           Cardinality(PlayerStore_get_players_by_room),
                                       !.questions_per_round = room.questions_per_round,
                                       !.pre_count =
                                           Cardinality(TopicStore_get_topics(room_topics,
                                                                             next_round)),
                                       !.fresh = topic \notin room_topics[next_round],
                                       !.subscribed = connections]
                IN /\ connections' = b.active
                   /\ req' = Subscribed([req EXCEPT ![s] =
                                            Issue(r0, "topic_submitted", b)],
                                        b.active)
            /\ Quiet
            /\ UNCHANGED <<room, players, room_scores, room_questions, answered,
                           group_correct, gen_calls, awarded>>

\* a plausible slip: any topic makes the quorum
quorum_any_topic(submitted_count, total_players) == submitted_count >= 1

\* a plausible slip: strictly more topics than players
quorum_strict(submitted_count, total_players) == submitted_count > total_players

\* the quorum rule of submit_topic
quorum(submitted_count, total_players) == submitted_count >= total_players

\* submit_topic after the topic_submitted broadcast: the quorum check and the
\* all_topics_submitted broadcast
submit_topic_quorum(s) ==
    /\ req[s].pc = "topic_submitted"
    /\ IF quorum(req[s].submitted_count, req[s].total_players)
       THEN /\ \E failed \in SUBSET connections :
                   LET b == ConnectionManager_broadcast_to_room(connections, failed)
                       r1 == [req[s] EXCEPT !.pc = "topic_generate"]
                   IN /\ connections' = b.active
                      /\ req' = Subscribed([req EXCEPT ![s] =
                                               Issue(r1, "all_topics_submitted", b)],
                                           b.active)
            /\ Quiet
       ELSE /\ Respond(s, req[s], 200)
            /\ UNCHANGED connections
    /\ UNCHANGED <<room, players, room_scores, room_topics, room_questions, answered,
                   group_correct, gen_calls, awarded, contributed, nreqs>>

\* submit_topic after the all_topics_submitted broadcast: the generator and
\* create_questions, up to `await _generate_questions_audio`
submit_topic_generate(s, outcome) ==
    /\ req[s].pc = "topic_generate"
    /\ gen_calls' = [gen_calls EXCEPT ![req[s].next_round] = @ + 1]
    /\ LET sample_questions ==
               generate_questions_with_llm(req[s].topics, req[s].questions_per_round,
                                           outcome)
       IN IF raises(outcome)
          THEN /\ Respond(s, [req[s] EXCEPT !.gens = @ + 1], error_code(outcome))
               /\ UNCHANGED room_questions
          ELSE /\ room_questions' =
                      QuestionStore_create_questions(room_questions, req[s].next_round,
                                                     sample_questions)
               /\ req' = [req EXCEPT ![s] =
                             [@ EXCEPT !.pc = "topic_commit", !.gens = @ + 1,
                                       !.n_questions = Len(sample_questions)]]
               /\ Quiet
    /\ UNCHANGED <<room, players, room_scores, room_topics, answered, group_correct,
                   connections, awarded, contributed, nreqs>>

\* a plausible slip: the room read at the start of the request is saved whole,
\* with the new round
submit_topic_commit_saves_room(s) ==
    /\ req[s].pc = "topic_commit"
    /\ room' = [RoomStore_update_room_round(room, req[s].next_round, now)
                   EXCEPT !.status = req[s].status_read]
    /\ \E failed \in SUBSET connections :
           LET b == ConnectionManager_broadcast_to_room(connections, failed)
               r1 == [req[s] EXCEPT !.advs = @ + 1]
           IN /\ connections' = b.active
              /\ RespondAfter(s, Issue(r1, "round_changed", b), 200, b)
    /\ UNCHANGED <<players, room_scores, room_topics, room_questions, answered,
                   group_correct, gen_calls, awarded, contributed, nreqs>>

\* submit_topic after the audio: update_room_round and the round_changed broadcast
submit_topic_commit(s) ==
    /\ req[s].pc = "topic_commit"
    /\ room' = RoomStore_update_room_round(room, req[s].next_round, now)
    /\ \E failed \in SUBSET connections :
           LET b == ConnectionManager_broadcast_to_room(connections, failed)
               r1 == [req[s] EXCEPT !.advs = @ + 1]
           IN /\ connections' = b.active
              /\ RespondAfter(s, Issue(r1, "round_changed", b), 200, b)
    /\ UNCHANGED <<players, room_scores, room_topics, room_questions, answered,
                   group_correct, gen_calls, awarded, contributed, nreqs>>

\* --------------------------------------------------------------- game stats
\* QuestionStore.get_questions_group_correct_count: the questions whose
\* group-correct flag is set
QuestionStore_get_questions_group_correct_count(gc) == Cardinality(gc)

\* round(num / den): to the nearest integer, a half to the even one
round(num, den) ==
    LET q == num \div den
        rem == num % den
    IN IF 2 * rem < den THEN q
       ELSE IF 2 * rem > den THEN q + 1
       ELSE IF q % 2 = 0 THEN q ELSE q + 1

\* a plausible slip: the rate is cut, not rounded
group_correct_rate_floor(group_correct_count, total_questions) ==
    LET rate == IF total_questions > 0
                THEN (100 * group_correct_count) \div total_questions ELSE 0
    IN IF rate > 100 THEN 100 ELSE IF rate < 0 THEN 0 ELSE rate

\* group_correct_rate of _compute_game_stats_and_awards
group_correct_rate(group_correct_count, total_questions) ==
    LET rate == IF total_questions > 0
                THEN round(100 * group_correct_count, total_questions) ELSE 0
    IN IF rate > 100 THEN 100 ELSE IF rate < 0 THEN 0 ELSE rate

\* the keys of the dict topic_scores
TopicKeys(ps) == UNION {DOMAIN ps[p].topic_score : p \in DOMAIN ps}

\* the orders in which the dict topic_scores may hold its keys: the order in
\* which the topics were first credited, which the hashes of the players keep
\* in their JSON and the model does not
DictOrders(ps) ==
    {o \in [1..Cardinality(TopicKeys(ps)) -> TopicKeys(ps)] :
        \A i, j \in DOMAIN o : o[i] = o[j] => i = j}

\* topic_scores[topic]: the players who hold a score for the topic, in the order
\* of the leaderboard, with that score
topic_scores(lb, ps, topic) ==
    LET holders == SelectSeq(lb, LAMBDA e : topic \in DOMAIN ps[e.playerId].topic_score)
    IN [i \in 1..Len(holders) |->
           [playerId |-> holders[i].playerId,
            score |-> ps[holders[i].playerId].topic_score[topic]]]

\* sorted(lst, key=lambda x: -x[1]): by descending score, equal scores in the
\* order of the list
sorted(lst) ==
    LET before(k) == {m \in DOMAIN lst :
                         lst[m].score > lst[k].score
                         \/ (lst[m].score = lst[k].score /\ m < k)}
    IN [i \in 1..Len(lst) |->
           lst[CHOOSE k \in DOMAIN lst : Cardinality(before(k)) = i - 1]]

topic_titles ==
    <<"Subject Matter authority on", "Knowing the most about",
      "The One-Man Encyclopedia on">>

\* the Wildcard King award: the players with the highest total score
king_award(lb) ==
    LET max_score == CHOOSE x \in {lb[i].score : i \in DOMAIN lb} :
                         \A i \in DOMAIN lb : lb[i].score <= x
        kings == SelectSeq(lb, LAMBDA e : e.score = max_score)
    IN <<[playerIds |-> [i \in 1..Len(kings) |-> kings[i].playerId],
          awardName |-> "The Wildcard King", topic |-> <<>>]>>

\* the topic expert award of the topic at place idx of the dict, if any
expert_award(lb, ps, topics, idx) ==
    LET lst == topic_scores(lb, ps, topics[idx + 1])
    IN IF lst = <<>> THEN <<>>
       ELSE LET best_score == CHOOSE x \in {lst[i].score : i \in DOMAIN lst} :
                                  \A i \in DOMAIN lst : lst[i].score <= x
                winners == SelectSeq(lst, LAMBDA e : e.score = best_score /\ e.score > 0)
            IN IF winners = <<>> THEN <<>>
               ELSE <<[playerIds |-> [i \in 1..Len(winners) |-> winners[i].playerId],
                       awardName |-> topic_titles[(idx % Len(topic_titles)) + 1],
                       topic |-> topics[idx + 1]]>>

\* |a - b|
abs(a) == IF a < 0 THEN -a ELSE a

\* a plausible slip: the pair is the two best of the topic, however far apart
shared_award_two_best(lb, ps, topic) ==
    LET lst_sorted == sorted(topic_scores(lb, ps, topic))
    IN IF Len(lst_sorted) < 2 THEN <<>>
       ELSE <<[playerIds |-> <<lst_sorted[1].playerId, lst_sorted[2].playerId>>,
               awardName |-> "Sharing a love for", topic |-> topic]>>

\* the Sharing a love for award of a topic, if any: the first pair i < j of the
\* sorted list whose scores are positive and at most 100 apart
shared_award(lb, ps, topic) ==
    LET lst_sorted == sorted(topic_scores(lb, ps, topic))
        pairs == {ij \in (DOMAIN lst_sorted) \X (DOMAIN lst_sorted) :
                     /\ ij[1] < ij[2]
                     /\ lst_sorted[ij[1]].score > 0 /\ lst_sorted[ij[2]].score > 0
                     /\ abs(lst_sorted[ij[1]].score - lst_sorted[ij[2]].score) <= 100}
    IN IF Len(lst_sorted) < 2 \/ pairs = {} THEN <<>>
       ELSE LET first == CHOOSE ij \in pairs :
                             \A kl \in pairs :
                                 ij[1] < kl[1] \/ (ij[1] = kl[1] /\ ij[2] <= kl[2])
            IN <<[playerIds |-> <<lst_sorted[first[1]].playerId,
                                  lst_sorted[first[2]].playerId>>,
                  awardName |-> "Sharing a love for", topic |-> topic]>>

\* a plausible slip: five awards whatever the number of players
max_awards_five(n_players) == 5

\* the cap of the awards
max_awards(n_players) == IF n_players <= 3 THEN 3 ELSE 5

\* _compute_game_stats_and_awards, for a room that exists; topics is the dict
\* topic_scores as a list of its keys
compute_game_stats_and_awards(rm, ps, zs, gc, topics) ==
    LET total_questions == rm.num_rounds * rm.questions_per_round
        rate == group_correct_rate(QuestionStore_get_questions_group_correct_count(gc),
                                   total_questions)
        lb == PlayerStore_get_leaderboard(ps, zs)
        experts[i \in 0..Len(topics)] ==
            IF i = 0 THEN <<>> ELSE experts[i - 1] \o expert_award(lb, ps, topics, i - 1)
        shared[i \in 0..Len(topics)] ==
            IF i = 0 THEN <<>> ELSE shared[i - 1] \o shared_award(lb, ps, topics[i])
        awards == king_award(lb) \o experts[Len(topics)]
                  \o (IF Len(lb) >= 3 /\ topics # <<>> THEN shared[Len(topics)] ELSE <<>>)
        cap == max_awards(Len(lb))
    IN [groupCorrectRate |-> rate, totalQuestions |-> total_questions,
        awards |-> IF lb = <<>> THEN <<>>
                   ELSE SubSeq(awards, 1, IF Len(awards) < cap THEN Len(awards) ELSE cap)]

\* GET /api/rooms/{room_id}/game-stats
get_game_stats ==
    IF ~room.exists THEN Reject("stats", 404)
    ELSE \E topics \in DictOrders(players) :
         /\ last' = [kind |-> "stats", code |-> 200,
                     r |-> [Idle EXCEPT !.kind = "stats",
                                        !.stats =
                                            compute_game_stats_and_awards(
                                                room, players, room_scores,
                                                group_correct, topics)],
                     disconnected |-> {}]
         /\ UNCHANGED <<room, players, room_scores, room_topics, room_questions,
                        answered, group_correct, connections, req, gen_calls, awarded,
                        contributed, nreqs, wire, sending, others>>

\* the room after a game: n players have joined a room of num_rounds rounds of
\* questions_per_round questions created by a host who does not play, `played`
\* rounds were generated with n_questions questions each, the question q is
\* tagged topics_of[q] and the players correct[q] have answered it correctly
Played(n, num_rounds, questions_per_round, played, n_questions, topics_of, correct) ==
    LET right(p) == {q \in DOMAIN correct : p \in correct[q]}
        tagged(q) == {topics_of[q][i] : i \in DOMAIN topics_of[q]}
    IN
    /\ room = [RoomStore_create_room(<<"h">>, <<>>, questions_per_round, 1, num_rounds)
                  EXCEPT !.status = "started", !.current_round = played,
                         !.started_at = played]
    /\ players =
           [p \in 1..n |->
               [score |-> Points * Cardinality(right(p)),
                player_name |-> FreshName(p),
                topic_score |->
                    [t \in UNION {tagged(q) : q \in right(p)} |->
                        Points * Cardinality({q \in right(p) : t \in tagged(q)})]]]
    /\ room_scores = [p \in 1..n |-> Points * Cardinality(right(p))]
    /\ awarded = [p \in 1..n |-> Points * Cardinality(right(p))]
    /\ room_topics = [r \in Rounds |-> IF r <= played THEN {<<"a">>} ELSE {}]
    /\ contributed = {<<r, p>> : r \in 1..played, p \in 1..n}
    /\ room_questions =
           [r \in Rounds |->
               IF r <= played
               THEN [i \in 1..n_questions |->
                        [LLMQuestion EXCEPT !.topics = topics_of[<<r, i>>]]]
               ELSE <<>>]
    /\ answered = {<<q, p>> : q \in DOMAIN correct, p \in 1..n}
    /\ group_correct = {q \in DOMAIN correct : correct[q] # {}}
    /\ gen_calls = [r \in Rounds |-> IF r <= played THEN 1 ELSE 0]
    /\ nreqs = MaxRequests
    /\ connections = {}
    /\ req = [s \in Slots |-> Idle]
    /\ last = NoResponse
    /\ wire = [c \in Clients |-> <<>>]
    /\ sending = [m \in Broadcasts |-> NotSending]
    /\ others = {}

\* ================================================================ claims
Event(r, type) == \E i \in DOMAIN r.events : r.events[i] = type

\* C1: the status of the room never moves backwards: a started room is never
\* waiting again, a finished room is never waiting or started again.
C1_StatusNeverMovesBack ==
    [][/\ room.status = "started" => room'.status = "started"
       /\ room.status = "finished" => room'.status = "finished"]_vars

\* a round was advanced in a started room, which is still started
C1_Witness ==
    /\ room.status = "started"
    /\ last.kind = "topic" /\ last.r.advs = 1 /\ last.r.status_read = "started"

\* C2: the stored current_round never decreases.
C2_RoundNeverDecreases == [][room'.current_round >= room.current_round]_vars

\* C3: current_round never exceeds num_rounds.
C3_RoundWithinNumRounds == room.exists => room.current_round <= room.num_rounds

\* C4: two submit-topic requests in flight for the same next round that both saw
\* the quorum call the generator once for that round and persist one batch.
C4_OneGenerationPerQuorum ==
    \A s, t \in Slots :
        (/\ s # t
         /\ req[s].kind = "topic" /\ req[t].kind = "topic"
         /\ req[s].next_round = req[t].next_round
         /\ quorum(req[s].submitted_count, req[s].total_players)
         /\ quorum(req[t].submitted_count, req[t].total_players))
        => /\ gen_calls[req[s].next_round] <= 1
           /\ Len(room_questions[req[s].next_round]) <= room.questions_per_round

\* the request answered by the last step added the P-th distinct topic of its round
PthDistinctTopic ==
    /\ last.kind = "topic"
    /\ last.r.fresh
    /\ last.r.pre_count = last.r.total_players - 1

\* C5 as stated: the P-th distinct topic of round R causes exactly one generator
\* call and exactly one advancement of current_round to R.
C5_AsStated == PthDistinctTopic => last.r.gens = 1 /\ last.r.advs = 1

\* C5, amended: the P-th distinct topic of round R causes exactly one generator
\* call for round R; when the call succeeds the request writes current_round = R
\* exactly once and succeeds, when the call fails the request fails with no
\* advancement.
C5_PthTopicTriggersOnce ==
    /\ \A s \in Slots : req[s].gens <= 1 /\ req[s].advs = 0
    /\ PthDistinctTopic =>
           /\ last.r.gens = 1
           /\ last.code \in {200, 400, 500}
           /\ last.code = 200 => last.r.advs = 1 /\ room.current_round = last.r.next_round
           /\ last.code # 200 => last.r.advs = 0

\* the P-th distinct topic, with P = 2, advanced the round
C5_Witness ==
    /\ PthDistinctTopic /\ last.r.total_players = 2
    /\ last.code = 200 /\ last.r.advs = 1

\* the request answered by the last step was begun after the round it read had
\* been advanced to, by a player who had submitted a topic for that round
LateSubmission ==
    /\ last.kind = "topic"
    /\ last.r.round_read >= 2
    /\ <<last.r.round_read, last.r.player>> \in contributed

C7_QuorumMeansEveryPlayer ==
    (/\ last.kind = "topic" /\ last.r.advs = 1
     /\ last.r.total_players >= 2
     /\ Len(players) = last.r.total_players)
    => \A p \in DOMAIN players : <<last.r.next_round, p>> \in contributed

\* C8: the stored score of every player, in the player's hash and in the sorted
\* set of the room, is the sum of the points of the player's submissions judged
\* correct.
C8_ScoreIsSumOfAwards ==
    \A p \in DOMAIN players :
        players[p].score = awarded[p] /\ room_scores[p] = awarded[p]

\* two correct submissions of one player are in flight together
C8_Witness ==
    \E s, t \in Slots :
        /\ s # t
        /\ req[s].pc = "answer_record" /\ req[t].pc = "answer_record"
        /\ req[s].is_correct /\ req[t].is_correct
        /\ req[s].player = req[t].player
        /\ players[req[s].player].score = 2 * Points

\* C9: a submit-answer request broadcasts all_answers_submitted exactly when,
\* with the submitter recorded, the answered-set of the question holds every
\* player of the room; with one player the first submission triggers it.
C9_AllAnsweredIffEveryPlayer ==
    (last.kind = "answer" /\ last.code = 200) =>
        /\ <<last.r.question_id, last.r.player>> \in answered
        /\ Event(last.r, "all_answers_submitted")
               <=> \A p \in DOMAIN players : <<last.r.question_id, p>> \in answered
        /\ Len(players) = 1 => Event(last.r, "all_answers_submitted")

\* the second of two players answered and the broadcast was made
C9_Witness ==
    /\ last.kind = "answer" /\ last.code = 200
    /\ Len(players) = 2
    /\ Event(last.r, "all_answers_submitted")

\* C10: a start request on a room that is not waiting is rejected, with a
\* precondition failure when it carries the host token (a request that fails
\* authentication is rejected for that), calls the generator zero times,
\* persists no question and leaves status, current_round and started_at
\* unchanged.
C10_StartRejectedUnlessWaiting ==
    [][\A s \in Slots, h \in HostTokenInputs,
          o \in GenOutcomes(room.questions_per_round) :
           (room.exists /\ room.status # "waiting" /\ start_game(s, h, o))
           => /\ last'.kind = "start"
              /\ last'.code = (IF h = <<>> THEN 401 ELSE IF h # HostToken THEN 403 ELSE 400)
              /\ UNCHANGED <<room, room_questions, gen_calls, req>>]_vars

\* a start request with the host token was rejected on a started room
C10_Witness ==
    /\ last.kind = "start" /\ last.code = 400
    /\ room.status = "started"

\* the stored state of the room other than its sockets
store == <<room, players, room_scores, room_topics, room_questions, answered,
           group_correct>>

\* C11: a start request is rejected, calls no generator, persists no question
\* and leaves the room waiting when the host token is missing or is not the
\* stored one, when the room has no player, or when the round-1 topic set and
\* the topics of the room are both empty.
C11_StartRejectedWithoutEffect ==
    [][\A s \in Slots, h \in HostTokenInputs,
          o \in GenOutcomes(room.questions_per_round) :
           (/\ room.exists /\ room.status = "waiting"
            /\ \/ h = <<>>
               \/ h # HostToken
               \/ Len(players) = 0
               \/ room_topics[1] = {} /\ room.topics = <<>>
            /\ start_game(s, h, o))
           => /\ last'.kind = "start"
              /\ last'.code =
                     (IF h = <<>> THEN 401 ELSE IF h # HostToken THEN 403 ELSE 400)
              /\ last'.r = Idle
              /\ room'.status = "waiting"
              /\ UNCHANGED <<store, gen_calls, req, connections>>]_vars

\* a start with the host token was rejected in a waiting room that has a
\* player and no topic
C11_Witness ==
    /\ last.kind = "start" /\ last.code = 400 /\ last.r = Idle
    /\ room.status = "waiting"
    /\ Len(players) = 1
    /\ room_topics[1] = {} /\ room.topics = <<>>

\* the outcomes in which the provider fails
GenFailures == {o \in GenOutcomes(1) : ~o.ok}

\* C12: when the generator fails during a start or during a round advancement
\* triggered by the quorum, the request fails, it has persisted no question and
\* has not written the status, the current round or the start stamp of the room.
C12_GeneratorFailureLeavesRoom ==
    [][\A s \in Slots, o \in GenFailures :
           /\ (room.exists /\ start_game(s, HostToken, o))
              => /\ last'.kind = "start" /\ last'.code \in {400, 500}
                 /\ last'.r.n_questions = 0
                 /\ UNCHANGED <<room, room_questions, req>>
           /\ submit_topic_generate(s, o)
              => /\ last'.kind = "topic" /\ last'.code \in {400, 500}
                 /\ last'.r.n_questions = 0 /\ last'.r.advs = 0
                 /\ req'[s] = Idle
                 /\ UNCHANGED <<room, room_questions>>]_vars

\* the generator failed for a round and a request that repeated the submission
\* advanced the room to that round, with one batch of questions
C12_Witness ==
    /\ last.kind = "topic" /\ last.code = 200 /\ last.r.advs = 1
    /\ gen_calls[last.r.next_round] = 2
    /\ Len(room_questions[last.r.next_round]) = room.questions_per_round
    /\ room.current_round = last.r.next_round

\* C13: a submit-answer that names a question of a round other than the current
\* round of the room fails with not-found and changes no score, no answered-set
\* and no group-correct flag, also when the question could be answered before
\* the round advanced.
C13_StaleQuestionNotFound ==
    [][\A s \in Slots, t \in PlayerTokenInputs, q \in QuestionIdInputs,
          a \in AnswerInputs :
           (/\ room.exists
            /\ q[1] \in Rounds /\ q[1] # room.current_round
            /\ submit_answer(s, t, q, a))
           => /\ last'.kind = "answer"
              /\ last'.code \in {400, 401, 403, 404}
              /\ (room.status = "started" /\ t # <<>> /\ t[1] \in DOMAIN players)
                     => last'.code = 404 /\ last'.r.question_id = q
              /\ UNCHANGED <<store, awarded, req, connections>>]_vars

\* in a started room that advanced to round 2, a player's answer to a question of
\* round 1 was answered not-found
C13_Witness ==
    /\ last.kind = "answer" /\ last.code = 404
    /\ last.r.player \in DOMAIN players
    /\ last.r.question_id = <<1, 1>>
    /\ Len(room_questions[1]) >= 1
    /\ room.status = "started" /\ room.current_round = 2

\* C14: a submit-answer on a room that is not started is rejected, changes no
\* score, no answered-set and no group-correct flag and issues no broadcast.
C14_AnswerRejectedUnlessStarted ==
    [][\A s \in Slots, t \in PlayerTokenInputs, q \in QuestionIdInputs,
          a \in AnswerInputs :
           (room.exists /\ room.status # "started" /\ submit_answer(s, t, q, a))
           => /\ last'.kind = "answer"
              /\ last'.code = (IF t = <<>> THEN 401 ELSE 400)
              /\ last'.r.events = <<>>
              /\ UNCHANGED <<store, awarded, req, connections>>]_vars

\* a player answered a question that is already persisted for round 1 while the
\* room was still waiting, and was rejected
C14_Witness ==
    /\ last.kind = "answer" /\ last.code = 400
    /\ room.status = "waiting"
    /\ Len(room_questions[1]) >= 1
    /\ Len(players) >= 1

\* the token is missing, is the token of no player, or is the token of a player
\* of another room
NotAPlayerOfTheRoom(t) == t = <<>> \/ t[1] \notin DOMAIN players

\* C15: a submit-answer or submit-topic request with a missing token, an unknown
\* token or the token of a player of another room is rejected, changes no room,
\* player, topic, question or answered-set state of the room and issues no
\* broadcast to it.
C15_ForeignTokenWithoutEffect ==
    [][\A s \in Slots, t \in PlayerTokenInputs :
           (room.exists /\ NotAPlayerOfTheRoom(t))
           => /\ \A q \in QuestionIdInputs, a \in AnswerInputs :
                     submit_answer(s, t, q, a)
                     => /\ last'.kind = "answer"
                        /\ last'.code =
                               (IF t = <<>> THEN 401
                                ELSE IF room.status # "started" THEN 400
                                ELSE IF t[1] = OtherRoomPlayer THEN 403 ELSE 404)
                        /\ last'.r.events = <<>>
                        /\ UNCHANGED <<store, awarded, contributed, req, connections>>
              /\ \A x \in TopicInputs :
                     submit_topic(s, t, x)
                     => /\ last'.kind = "topic"
                        /\ last'.code =
                               (IF t = <<>> THEN 401
                                ELSE IF t[1] = OtherRoomPlayer THEN 403 ELSE 404)
                        /\ last'.r.events = <<>>
                        /\ UNCHANGED <<store, awarded, contributed, req, connections>>]_vars

\* a topic sent with the token of a player of another room was rejected
C15_Witness ==
    /\ last.kind = "topic" /\ last.code = 403
    /\ room.exists /\ Len(players) >= 1

\* C16: no two players of the room have the same display name.
C16_NamesUnique ==
    \A p, q \in DOMAIN players :
        p # q => players[p].player_name # players[q].player_name

\* C17: no room is created with a questionsPerRound, timePerQuestion or
\* numRounds that is zero or negative.
C17_ConfigPositive ==
    room.exists =>
        /\ room.questions_per_round > 0
        /\ room.time_per_question > 0
        /\ room.num_rounds > 0

\* y is x without the spaces around it
IsTrimOf(y, x) ==
    \E i \in 1..(Len(x) + 1), j \in 0..Len(x) :
        /\ y = SubSeq(x, i, j)
        /\ \A k \in 1..(i - 1) : x[k] = " "
        /\ \A k \in (j + 1)..Len(x) : x[k] = " "
        /\ y # <<>> => y[1] # " " /\ y[Len(y)] # " "

\* the same letter in either case
SameLetter(c, d) ==
    \/ c = d
    \/ {c, d} \in {{"A", "a"}, {"B", "b"}, {"C", "c"}, {"D", "d"}}

\* the texts are equal once trimmed, whatever the case of their letters
TextEqual(a, b) ==
    \E i \in 1..(Len(a) + 1), j \in 0..Len(a), k \in 1..(Len(b) + 1), l \in 0..Len(b) :
        LET ta == SubSeq(a, i, j)
            tb == SubSeq(b, k, l)
        IN /\ IsTrimOf(ta, a) /\ IsTrimOf(tb, b)
           /\ Len(ta) = Len(tb)
           /\ \A n \in 1..Len(ta) : SameLetter(ta[n], tb[n])

\* C18: submit-answer judges an answer correct exactly when its text and the text
\* of the option at the correct index of the question are equal once trimmed and
\* whatever the case; with the options A, B, C, D and the correct index 2 the
\* answer "c" is correct and raises the score by the award, and the text of
\* another option, or the index as a text, is incorrect.
C18_JudgedByText ==
    [][\A s \in Slots, t \in PlayerTokenInputs, q \in QuestionIdInputs,
          a \in AnswerInputs :
           (submit_answer(s, t, q, a) /\ req'[s].pc = "answer_record")
           => LET question == room_questions[q[1]][q[2]]
                  option == question.options[question.correct_answer + 1]
                  p == req'[s].player
              IN /\ req'[s].is_correct <=> TextEqual(a, option)
                 /\ a = <<"c">> => req'[s].is_correct
                 /\ a \in {<<"B">>, <<"2">>} => ~req'[s].is_correct
                 /\ req'[s].is_correct
                        => players'[p].score = players[p].score + Points
                 /\ ~req'[s].is_correct => players'[p].score = players[p].score]_vars

\* an answer was judged correct and raised the score of its player from 0 to
\* the award
C18_Witness ==
    \E s \in Slots :
        /\ req[s].pc = "answer_record" /\ req[s].is_correct
        /\ players[req[s].player].score = Points
        /\ awarded[req[s].player] = Points

\* the score a player holds for a topic, 0 when the topic was never credited
TopicScoreOf(ps, p, t) ==
    IF t \in DOMAIN ps[p].topic_score THEN ps[p].topic_score[t] ELSE 0

\* C19: a correct submit-answer adds the award of 100 to the total score of the
\* player and to the score of every topic tagged on the question, and sets the
\* group-correct flag of the question; an incorrect one leaves the total, the
\* topic scores and the flag as they were; the response reports 0 or 100 points
\* and the total score after the submission.
C19_AwardOnCorrectAnswer ==
    [][\A s \in Slots, t \in PlayerTokenInputs, q \in QuestionIdInputs,
          a \in AnswerInputs :
           (submit_answer(s, t, q, a) /\ req'[s].pc = "answer_record")
           => LET question == room_questions[q[1]][q[2]]
                  tagged == {question.topics[i] : i \in 1..Len(question.topics)}
                  p == req'[s].player
              IN /\ req'[s].is_correct
                        => /\ players'[p].score = players[p].score + Points
                           /\ room_scores'[p] = players[p].score + Points
                           /\ \A tp \in tagged :
                                  TopicScoreOf(players', p, tp)
                                      = TopicScoreOf(players, p, tp) + Points
                           /\ \A tp \in DOMAIN players'[p].topic_score \ tagged :
                                  TopicScoreOf(players', p, tp)
                                      = TopicScoreOf(players, p, tp)
                           /\ q \in group_correct'
                           /\ req'[s].points = Points
                 /\ ~req'[s].is_correct
                        => /\ UNCHANGED <<players, room_scores, group_correct>>
                           /\ req'[s].points = 0
                 /\ \A o \in DOMAIN players \ {p} : players'[o] = players[o]
                 /\ req'[s].current_score = players'[p].score]_vars
    /\ [](last.code = 200 /\ last.kind = "answer"
              => /\ last.r.points \in {0, Points}
                 /\ last.r.points = Points <=> last.r.is_correct
                 /\ last.r.current_score >= last.r.points)

\* a correct answer was answered 200 after an earlier one: the player holds two
\* awards in total and for each topic of the question
C19_Witness ==
    /\ last.code = 200 /\ last.kind = "answer" /\ last.r.is_correct
    /\ last.r.points = Points
    /\ last.r.current_score = 2 * Points
    /\ \A tp \in {<<"a">>, <<"b">>} :
           TopicScoreOf(players, last.r.player, tp) = 2 * Points
    /\ last.r.question_id \in group_correct

\* the events a request issues, in their order, when it runs to its response
EventOrder(kind) ==
    CASE kind = "join" -> <<"player_joined">>
      [] kind = "answer" -> <<"answer_submitted", "all_answers_submitted">>
      [] kind = "topic" -> <<"topic_submitted", "all_topics_submitted", "round_changed">>
      [] kind = "start" -> <<"game_started">>
      [] OTHER -> <<>>

\* the events of the request r are the first ones of the order of its kind, and
\* every socket subscribed since its start received exactly them, in that order
InOrder(r) ==
    /\ Len(r.events) <= Len(EventOrder(r.kind))
    /\ r.events = SubSeq(EventOrder(r.kind), 1, Len(r.events))
    /\ \A c \in r.subscribed : r.delivered[c] = r.events

SameOrder(c, d) ==
    \A i, j \in DOMAIN wire[c], k, l \in DOMAIN wire[d] :
        (wire[c][i] = wire[d][k] /\ wire[c][j] = wire[d][l] /\ i < j) => k < l

BroadcastStep(before, after, type) ==
    /\ after.events = Append(before.events, type)
    /\ connections' \subseteq connections
    /\ \A c \in connections' :
           after.delivered[c] = Append(before.delivered[c], type)
    /\ \A c \in connections \ connections' :
           after.delivered[c] = before.delivered[c]

\* C22: in a broadcast a send that fails on one socket does not keep the
\* message from the other sockets of the room, removes exactly the sockets
\* whose send failed from the registry, and neither fails the request that
\* broadcasts nor undoes what it wrote.
C22_FailedSendIsIsolated ==
    [][/\ \A t \in JoinTopicInputs :
              (join_room(FreshName(Len(players) + 1), t) /\ last'.code = 200)
              => /\ BroadcastStep(Idle, last'.r, "player_joined")
                 /\ Len(players') = Len(players) + 1
       /\ \A s \in Slots :
              start_game_commit(s)
              => /\ BroadcastStep(req[s], last'.r, "game_started")
                 /\ last'.code = 200
                 /\ room'.status = "started"
       /\ \A s \in Slots, t \in PlayerTokenInputs, q \in QuestionIdInputs,
             a \in AnswerInputs :
              (submit_answer(s, t, q, a) /\ req'[s].pc = "answer_record")
              => /\ BroadcastStep(Idle, req'[s], "answer_submitted")
                 /\ players'[req'[s].player].score
                        = players[req'[s].player].score + req'[s].points
       /\ \A s \in Slots :
              submit_answer_record(s)
              => /\ last'.code = 200
                 /\ <<req[s].question_id, req[s].player>> \in answered'
                 /\ last'.r.all_answered
                        => BroadcastStep(req[s], last'.r, "all_answers_submitted")]_vars

\* a join was answered 200 and its player exists, although the send of
\* player_joined failed on one socket, which left the registry; the other
\* socket was sent the event
C22_Witness ==
    /\ last.code = 200 /\ last.kind = "join"
    /\ last.r.player \in DOMAIN players
    /\ \E c \in last.disconnected, d \in connections :
           /\ c \notin connections
           /\ last.r.delivered[c] = <<>>
           /\ last.r.delivered[d] = <<"player_joined">>

\* C23: get leaderboard returns every player of the room exactly once, in
\* non-increasing order of the total score it reports for each, whatever joins
\* and answers came before and however they interleaved.
C23_LeaderboardSorted ==
    (last.kind = "leaderboard" /\ last.code = 200)
    => LET lb == last.r.leaderboard IN
       /\ Len(lb) = Len(players)
       /\ \A p \in DOMAIN players : \E i \in DOMAIN lb : lb[i].playerId = p
       /\ \A i \in DOMAIN lb : lb[i].score = players[lb[i].playerId].score
       /\ \A i, j \in DOMAIN lb : i < j => lb[i].score >= lb[j].score

\* the leaderboard of two players, read while an answer is in flight, puts the
\* player who scored before the one who did not
C23_Witness ==
    /\ last.kind = "leaderboard" /\ last.code = 200
    /\ \E s \in Slots : req[s].pc = "answer_record"
    /\ Len(last.r.leaderboard) = 2
    /\ last.r.leaderboard[1] = [playerId |-> 1, score |-> Points]
    /\ last.r.leaderboard[2] = [playerId |-> 2, score |-> 0]

\* C24: every persisted question has exactly 4 options and a correct index in
\* 0..3, whatever the generator returned.
C24_QuestionsWellFormed ==
    \A r \in Rounds : \A i \in DOMAIN room_questions[r] :
        /\ Len(room_questions[r][i].options) = 4
        /\ room_questions[r][i].correct_answer \in 0..3

\* C25: game-stats reports groupCorrectRate = the questions whose group-correct
\* flag is set over numRounds * questionsPerRound, as a percentage rounded to an
\* integer and clamped to 0..100, and 0 when the denominator is 0; 3 flagged
\* questions of 4 give 75.
C25_GroupCorrectRate ==
    (last.kind = "stats" /\ last.code = 200)
    => LET flagged == Cardinality(group_correct)
           total == room.num_rounds * room.questions_per_round
           rate == last.r.stats.groupCorrectRate
       IN /\ rate \in 0..100
          /\ total = 0 => rate = 0
          /\ (total > 0 /\ flagged <= total)
                 => 2 * abs(total * rate - 100 * flagged) <= total
          /\ (total > 0 /\ flagged > total) => rate = 100
          /\ (total = 4 /\ flagged = 3) => rate = 75

\* the stats of a room of 2 rounds of 2 questions, 3 of them flagged, were read
C25_Witness ==
    /\ last.kind = "stats" /\ last.code = 200
    /\ room.num_rounds = 2 /\ room.questions_per_round = 2
    /\ Cardinality(group_correct) = 3
    /\ last.r.stats.groupCorrectRate = 75

\* the awards of the response of game-stats, and those of them of a name
Awards == last.r.stats.awards

AwardsNamed(names) == {i \in DOMAIN Awards : Awards[i].awardName \in names}

SharedAwards == AwardsNamed({"Sharing a love for"})

ExpertAwards == AwardsNamed({topic_titles[i] : i \in DOMAIN topic_titles})

\* the players x and y make a pair for the topic: both scores positive and at
\* most 100 apart, x not below y
Pair(x, y, topic) ==
    /\ x # y
    /\ TopicScoreOf(players, x, topic) > 0 /\ TopicScoreOf(players, y, topic) > 0
    /\ TopicScoreOf(players, x, topic) >= TopicScoreOf(players, y, topic)
    /\ TopicScoreOf(players, x, topic) - TopicScoreOf(players, y, topic) <= 100

\* C26: with at least 3 players game-stats gives each topic at most one shared
\* interest award, to the first pair in descending order of the topic's scores
\* whose scores are both positive and at most 100 apart; with 3 players of whom
\* two scored 100 in the one topic and one scored nothing, the awards include
\* the pair award of the topic for exactly the two.
C26_SharedInterestPair ==
    (last.kind = "stats" /\ last.code = 200)
    => /\ Len(players) < 3 => SharedAwards = {}
       /\ \A i, j \in SharedAwards : Awards[i].topic = Awards[j].topic => i = j
       /\ \A i \in SharedAwards :
              LET topic == Awards[i].topic
                  p == Awards[i].playerIds[1]
                  q == Awards[i].playerIds[2]
              IN /\ Len(Awards[i].playerIds) = 2
                 /\ Pair(p, q, topic)
                 /\ \A x, y \in DOMAIN players :
                        Pair(x, y, topic)
                        => ~ \/ TopicScoreOf(players, x, topic)
                                    > TopicScoreOf(players, p, topic)
                             \/ /\ TopicScoreOf(players, x, topic)
                                       = TopicScoreOf(players, p, topic)
                                /\ TopicScoreOf(players, y, topic)
                                       > TopicScoreOf(players, q, topic)
       /\ \A topic \in TopicKeys(players) :
              (/\ Len(players) = 3 /\ TopicKeys(players) = {topic}
               /\ \E x, y, z \in DOMAIN players :
                      /\ x # y /\ x # z /\ y # z
                      /\ TopicScoreOf(players, x, topic) = 100
                      /\ TopicScoreOf(players, y, topic) = 100
                      /\ TopicScoreOf(players, z, topic) = 0)
              => \E i \in SharedAwards :
                     /\ Awards[i].topic = topic
                     /\ \A k \in 1..2 :
                            TopicScoreOf(players, Awards[i].playerIds[k], topic) = 100

\* the stats of 4 players were read: in topic c one holds 300 and two hold 100,
\* and the pair award of c went to the two who hold 100
C26_Witness ==
    /\ last.kind = "stats" /\ last.code = 200
    /\ Len(players) = 4
    /\ \E x \in DOMAIN players : TopicScoreOf(players, x, <<"c">>) = 300
    /\ \E i \in SharedAwards :
           /\ Awards[i].topic = <<"c">>
           /\ \A k \in 1..2 : TopicScoreOf(players, Awards[i].playerIds[k], <<"c">>) = 100

\* the place of an award in the computed order: the Wildcard King, the topic
\* experts, the shared interests
Rank(award) ==
    IF award.awardName = "The Wildcard King" THEN 1
    ELSE IF award.awardName = "Sharing a love for" THEN 3 ELSE 2

\* the players of an award
Awarded(i) == {Awards[i].playerIds[k] : k \in DOMAIN Awards[i].playerIds}

\* the players who hold the best score of the topic
Best(topic) ==
    {x \in DOMAIN players :
        \A y \in DOMAIN players :
            TopicScoreOf(players, y, topic) <= TopicScoreOf(players, x, topic)}

\* the topics that earn a topic expert award, and those that earn a pair award
ExpertTopics ==
    {t \in TopicKeys(players) : \E x \in DOMAIN players : TopicScoreOf(players, x, t) > 0}

SharedTopics ==
    IF Len(players) < 3 THEN {}
    ELSE {t \in TopicKeys(players) : \E x, y \in DOMAIN players : Pair(x, y, t)}

\* C27: game-stats returns at most 3 awards for 3 or fewer players and at most 5
\* otherwise, and what it returns is the beginning of the computed order: the
\* Wildcard King for all players tied at the highest total, then one topic
\* expert award per topic with a positive best score, then the shared interest
\* awards.
C27_AwardsCappedInOrder ==
    (last.kind = "stats" /\ last.code = 200)
    => LET cap == IF Len(players) <= 3 THEN 3 ELSE 5
           computed == 1 + Cardinality(ExpertTopics) + Cardinality(SharedTopics)
       IN /\ Len(Awards) = (IF computed < cap THEN computed ELSE cap)
          /\ \A i, j \in DOMAIN Awards : i < j => Rank(Awards[i]) <= Rank(Awards[j])
          /\ Rank(Awards[1]) = 1 /\ \A i \in DOMAIN Awards : Rank(Awards[i]) = 1 => i = 1
          /\ Awarded(1) = {x \in DOMAIN players :
                              \A y \in DOMAIN players :
                                  players[y].score <= players[x].score}
          /\ \A i \in ExpertAwards :
                 /\ Awards[i].topic \in ExpertTopics
                 /\ Awarded(i) = Best(Awards[i].topic)
                 /\ \A j \in ExpertAwards : Awards[j].topic = Awards[i].topic => i = j
          /\ \A i \in SharedAwards :
                 /\ Awards[i].topic \in SharedTopics
                 /\ \A j \in SharedAwards : Awards[j].topic = Awards[i].topic => i = j
          /\ SharedAwards # {}
                 => {Awards[i].topic : i \in ExpertAwards} = ExpertTopics
          /\ \A i, j \in SharedAwards :
                 i < j
                 => \E k, l \in ExpertAwards :
                        /\ k < l
                        /\ Awards[k].topic = Awards[i].topic
                        /\ Awards[l].topic = Awards[j].topic

\* the stats of 4 players were read: 7 awards were computed and the first 5
\* returned, the last of them a shared interest award
C27_Witness ==
    /\ last.kind = "stats" /\ last.code = 200
    /\ Len(players) = 4
    /\ 1 + Cardinality(ExpertTopics) + Cardinality(SharedTopics) = 7
    /\ Len(Awards) = 5
    /\ Rank(Awards[5]) = 3

\* C28: under any interleaving of start requests for a waiting room, two in
\* flight that both read waiting included, the generator produces the questions
\* of round 1 at most once and the room holds one batch of them: a start
\* invokes the generator only when no batch of round 1 is persisted and no other
\* start is between its generation and its commit (a start whose generator
\* failed has persisted nothing and may be repeated).
C28_OneStartGeneration ==
    [][\A s \in Slots, h \in HostTokenInputs,
          o \in GenOutcomes(room.questions_per_round) :
           (start_game(s, h, o) /\ gen_calls'[1] > gen_calls[1])
           => /\ room_questions[1] = <<>>
              /\ \A t \in Slots : req[t].pc # "start_commit"]_vars

\* C29: current_round changes only while the status is started: a submit-topic
\* on a room that is waiting or finished does not invoke the generator, does not
\* advance the round and does not stamp started_at again.
C29_RoundMovesOnlyWhileStarted ==
    [][/\ (room.exists /\ room'.current_round # room.current_round)
          => room.status = "started"
       /\ \A s \in Slots :
              /\ (\E o \in GenOutcomes(req[s].questions_per_round) :
                      submit_topic_generate(s, o))
                 => room.status = "started"
              /\ submit_topic_commit(s) => room.status = "started"]_vars

\* a submit-topic for the round was accepted in a started room, and with it every
\* player of the room has submitted a topic for the round
AllSubmitted(r) ==
    /\ room.status = "started" /\ room.current_round = r - 1
    /\ \E s \in Slots :
           /\ req[s].pc = "topic_submitted"
           /\ req[s].status_read = "started" /\ req[s].next_round = r
    /\ \A p \in DOMAIN players : <<r, p>> \in contributed

\* the generator failed for the round in the request that answered last
GenFailed(r) ==
    /\ last.kind = "topic" /\ last.code \in {400, 500}
    /\ last.r.next_round = r /\ last.r.gens >= 1

\* C30: when every player of a started room has submitted a topic for the round
\* current_round + 1 and the generator succeeds, the room eventually advances
\* to that round, also when several players submitted the same topic text and
\* when the room has a single player.
C30_AllSubmittedAdvances ==
    \A r \in Rounds \ {1} :
        AllSubmitted(r) ~> (room.current_round >= r \/ GenFailed(r))

\* C31: a submit-topic request that broadcast all_topics_submitted for a round
\* also broadcasts round_changed for the round and answers with current_round
\* advanced to it: no all_topics_submitted is seen for a round that then fails
\* to start.
C31_AllTopicsThenRoundChanged ==
    (last.kind = "topic" /\ Event(last.r, "all_topics_submitted"))
    => /\ Event(last.r, "round_changed")
       /\ room.current_round = last.r.next_round

\* C32: an event is issued after the change it reports is in the store: at
\* game_started the status is started and the questions of round 1 are
\* persisted, at round_changed the stored current_round is the round of the
\* event, at answer_submitted the stored score of the player is the score of the
\* event and the player is in the answered-set of the question.
C32_EventsAfterCommit ==
    [][\A s \in Slots :
           /\ start_game_commit(s)
              => /\ room'.status = "started"
                 /\ Len(room_questions'[1]) >= req[s].n_questions
           /\ submit_topic_commit(s)
              => room'.current_round = req[s].next_round
           /\ \A t \in PlayerTokenInputs, q \in QuestionIdInputs, a \in AnswerInputs :
                  (submit_answer(s, t, q, a) /\ Event(req'[s], "answer_submitted"))
                  => /\ players'[req'[s].player].score = req'[s].current_score
                     /\ <<q, req'[s].player>> \in answered']_vars

\* C33: while the status of a room is started, the list of questions of its
\* current round holds questions_per_round questions: not fewer after a short
\* or empty list of the generator, not more after a second batch for the round.
C33_BatchOfCurrentRound ==
    room.status = "started"
    => Len(room_questions[room.current_round]) = room.questions_per_round

\* C34: while no submit-answer request is in progress, the score of every player
\* in the sorted set of the room is the score in the player's record, however
\* the correct submissions before were interleaved.
C34_SortedSetAgreesWithRecord ==
    (\A s \in Slots : req[s].kind # "answer")
    => /\ DOMAIN room_scores = DOMAIN players
       /\ \A p \in DOMAIN players : room_scores[p] = players[p].score

\* the last of two overlapping correct submissions of one player has answered:
\* the score it computed is below the stored one, and no other is in progress
C34_Witness ==
    /\ \A s \in Slots : req[s].kind # "answer"
    /\ last.kind = "answer" /\ last.code = 200 /\ last.r.is_correct
    /\ last.r.current_score < players[last.r.player].score
    /\ room_scores[last.r.player] = players[last.r.player].score

\* C35: all_answers_submitted is broadcast at most once per question: only the
\* submission that completes the answered-set of the question issues it, not a
\* later one by a player who is in the set already.
C35_AllAnsweredOnce ==
    [][\A s \in Slots :
           (submit_answer_record(s) /\ Event(last'.r, "all_answers_submitted"))
           => \E p \in DOMAIN players : <<req[s].question_id, p>> \notin answered]_vars

\* C37: players are added to a room only while its status is waiting: once the
\* status is started the players of the room stay the same, so the number of
\* players that the quorums of topics and of answers compare with is fixed,
\* however joins and starts are interleaved.
C37_PlayersFixedOnceStarted ==
    [][/\ Len(players') # Len(players) => room'.status = "waiting"
       /\ room.status = "started"
              => /\ DOMAIN players' = DOMAIN players
                 /\ \A p \in DOMAIN players :
                        players'[p].player_name = players[p].player_name
                 /\ Cardinality(PlayerStore_get_players_by_room')
                        = Cardinality(PlayerStore_get_players_by_room)]_vars

\* a join was refused in a started room of two players
C37_Witness ==
    /\ room.status = "started"
    /\ last.kind = "join" /\ last.code = 400
    /\ Len(players) = 2

\* C36: submit-answer does not guard against repeats: a correct submission of a
\* player who is already in the answered-set of the question adds the points
\* again to the total score and to the score of every topic of the question, and
\* recording it leaves the answered-set as it is, with the player in it once.
C36_RepeatScoresAgain ==
    [][\A s \in Slots :
           /\ \A t \in PlayerTokenInputs, q \in QuestionIdInputs, a \in AnswerInputs :
                  (/\ submit_answer(s, t, q, a)
                   /\ req'[s].is_correct
                   /\ <<q, req'[s].player>> \in answered)
                  => LET p == req'[s].player
                         topics == room_questions[q[1]][q[2]].topics
                     IN /\ players'[p].score = players[p].score + Points
                        /\ room_scores'[p] = room_scores[p] + Points
                        /\ \A i \in DOMAIN topics :
                               TopicScoreOf(players', p, topics[i])
                                   = TopicScoreOf(players, p, topics[i]) + Points
           /\ (/\ submit_answer_record(s)
               /\ <<req[s].question_id, req[s].player>> \in answered)
              => /\ answered' = answered
                 /\ last'.code = 200]_vars

\* a player answered the one question right for the second time: the score is
\* twice the points and the answered-set holds the player once
C36_Witness ==
    /\ last.kind = "answer" /\ last.code = 200 /\ last.r.is_correct
    /\ Len(room_questions[1]) = 1 /\ room_questions[2] = <<>>
    /\ players[last.r.player].score = 2 * Points
    /\ {a \in answered : a[2] = last.r.player} = {<<last.r.question_id, last.r.player>>}

\* C38: no operation sets the status of a room to finished: the status of a
\* room is waiting or started in every state, and a started room that has
\* reached its last round still accepts the answers and the topics of its
\* players.
C38_NeverFinished ==
    [][/\ room'.exists => room'.status \in {"waiting", "started"}
       /\ (room.status = "started" /\ room.current_round >= room.num_rounds)
          => \A s \in Slots, t \in PlayerTokenInputs :
                 belongs_to_room(PlayerStore_get_player_by_token(t))
                 => /\ \A x \in TopicInputs :
                           (submit_topic(s, t, x) /\ strip(x) # <<>>)
                           => req'[s].pc = "topic_submitted"
                    /\ \A q \in QuestionStore_get_questions_by_room, a \in AnswerInputs :
                           submit_answer(s, t, q, a)
                           => req'[s].pc = "answer_record"]_vars

\* a room of 2 rounds is started and in round 2, and a topic of a player was
\* accepted there
C38_Witness ==
    /\ room.status = "started" /\ room.current_round >= room.num_rounds
    /\ \E s \in Slots :
           /\ req[s].pc = "topic_submitted"
           /\ req[s].round_read >= room.num_rounds /\ req[s].status_read = "started"

\* C39: every string in the topic set of any round is, trimmed, not empty and at
\* most 50 characters long, whether the host seeded it at creation, a player gave
\* it at the join or submit-topic added it.
C39_TopicsValid ==
    \A r \in Rounds : \A t \in room_topics[r] :
        strip(t) # <<>> /\ Len(strip(t)) <= MaxTopicLen

\* C40: a broadcast of the room is sent only to the sockets registered under the
\* room when it is issued: not to a socket registered under another room, not to
\* one that disconnected before and not to one that connected after.
C40_OnlyToRegisteredAtIssuance ==
    [][\A m \in Broadcasts :
           /\ \A c \in Clients :
                  (wire'[c] # wire[c] /\ wire'[c] = Append(wire[c], m))
                  => \/ sending[m].pc = "none" /\ c \in connections /\ c \notin others
                     \/ sending[m].pc = "gather" /\ c \in sending[m].pending
           /\ (sending[m].pc = "none" /\ sending'[m].pc = "gather")
              => sending'[m].pending \cup sending'[m].disconnected \subseteq connections]_vars

\* the first broadcast was sent to socket 1 while socket 2 was registered under
\* the other room, and the second after socket 1 had left and socket 2 had
\* moved to the room: each socket was handed the one broadcast
C40_Witness ==
    /\ sending[1].pc = "returned" /\ sending[1].disconnected = {}
    /\ sending[2].pc = "returned" /\ sending[2].disconnected = {}
    /\ wire[1] = <<1>> /\ wire[2] = <<2>>
    /\ connections = {2} /\ others = {1}

\* the requests of the host and of the players of a room
Requests ==
    \/ \E s \in Slots, h \in HostTokenInputs,
          o \in GenOutcomes(room.questions_per_round) : start_game(s, h, o)
    \/ \E s \in Slots : start_game_commit(s)
    \/ \E s \in Slots, t \in PlayerTokenInputs, q \in QuestionIdInputs,
          a \in AnswerInputs : submit_answer(s, t, q, a)
    \/ \E s \in Slots : submit_answer_record(s)
    \/ \E s \in Slots, t \in PlayerTokenInputs, x \in TopicInputs :
          submit_topic(s, t, x)
    \/ \E s \in Slots : submit_topic_quorum(s)
    \/ \E s \in Slots : \E o \in GenOutcomes(req[s].questions_per_round) :
          submit_topic_generate(s, o)
    \/ \E s \in Slots : submit_topic_commit(s)

\* rooms of a positive configuration
Creates ==
    \E h \in RoomNameInputs, t \in HostTopicsInputs, q \in QuestionsPerRoundInputs,
       d \in TimePerQuestionInputs, n \in NumRoundsInputs, m \in SessionModes :
        create_room(h, t, q, d, n, m)

\* players who each give a name of their own
Joins == \E t \in JoinTopicInputs : join_room(FreshName(Len(players) + 1), t)

\* A room of a positive configuration whose players have names of their own and
\* which no socket listens to.
Next == Creates \/ Joins \/ Requests

Spec == Init /\ [][Next]_vars

\* The event loop resumes every coroutine whose await has completed: a request
\* that is past its first step takes its next step.
Fairness ==
    \A s \in Slots :
        /\ WF_vars(start_game_commit(s))
        /\ WF_vars(submit_answer_record(s))
        /\ WF_vars(submit_topic_quorum(s))
        /\ WF_vars(\E o \in GenOutcomes(req[s].questions_per_round) :
                       submit_topic_generate(s, o))
        /\ WF_vars(submit_topic_commit(s))

SpecFair == Init /\ [][Next]_vars /\ Fairness

\* The same room, with players who give any name.
NextNames ==
    \/ Creates
    \/ \E n \in PlayerNameInputs, t \in JoinTopicInputs : join_room(n, t)
    \/ Requests

SpecNames == Init /\ [][NextNames]_vars

\* The same room, with any configuration.
NextConfig ==
    \/ Creates
    \/ \E h \in RoomNameInputs, t \in HostTopicsInputs, c \in NonPositiveConfigInputs,
          m \in SessionModes :
           create_room(h, t, c.questionsPerRound, c.timePerQuestion, c.numRounds, m)
    \/ Joins
    \/ Requests

SpecConfig == Init /\ [][NextConfig]_vars

\* The same room, with sockets that connect and disconnect.
NextSockets ==
    \/ Next
    \/ \E c \in Sockets : connect(c)
    \/ \E c \in Sockets : disconnect(c)

SpecSockets == Init /\ [][NextSockets]_vars

\* The game stats of a room after a game of one player: any configuration, as
\* many rounds as configured or one more, any questions answered correctly.
InitStats ==
    \E num_rounds \in 1..(MaxStatsRounds - 1), questions_per_round \in 0..MaxStatsPerRound :
    \E played \in {num_rounds, num_rounds + 1} :
        LET ids == (1..played) \X (1..questions_per_round) IN
        \E right \in SUBSET ids :
            Played(1, num_rounds, questions_per_round, played, questions_per_round,
                   [q \in ids |-> LLMQuestion.topics],
                   [q \in ids |-> IF q \in right THEN {1} ELSE {}])

SpecStats == InitStats /\ [][get_game_stats]_vars

\* the topics a question may be tagged with, where the awards are read
AwardsTopicLists == { << <<"a">>, <<"b">> >>, << <<"c">> >> }

\* The game stats of a room after one round of questions: any number of players,
\* any tags, any players correct on each question.
InitAwards ==
    \E n \in 1..MaxAwardsPlayers :
        LET ids == {1} \X (1..MaxAwardsQuestions) IN
        \E topics_of \in [ids -> AwardsTopicLists], correct \in [ids -> SUBSET (1..n)] :
            Played(n, 1, MaxAwardsQuestions, 1, MaxAwardsQuestions, topics_of, correct)

SpecAwards == InitAwards /\ [][get_game_stats]_vars

\* The same room as in Spec, with a provider that also returns questions that
\* are not as the prompt asks.
NextQuestions ==
    \/ Next
    \/ \E s \in Slots, h \in HostTokenInputs,
          o \in MalformedGenOutcomes(room.questions_per_round) : start_game(s, h, o)
    \/ \E s \in Slots : \E o \in MalformedGenOutcomes(req[s].questions_per_round) :
          submit_topic_generate(s, o)

SpecQuestions == Init /\ [][NextQuestions]_vars

\* a topic of one character more than submit_topic accepts
LongTopic == [i \in 1..(MaxTopicLen + 1) |-> "a"]

\* The same room as in Spec, whose host and players also give a topic that is
\* too long.
NextTopics ==
    \/ Next
    \/ \E h \in RoomNameInputs, q \in QuestionsPerRoundInputs,
          d \in TimePerQuestionInputs, n \in NumRoundsInputs, m \in SessionModes :
           create_room(h, <<LongTopic>>, q, d, n, m)
    \/ join_room(FreshName(Len(players) + 1), LongTopic)
    \/ \E s \in Slots, t \in PlayerTokenInputs : submit_topic(s, t, LongTopic)

SpecTopics == Init /\ [][NextTopics]_vars

\* The same room as in Spec, with a provider that also returns lists of another
\* length than asked for.
NextBatches ==
    \/ Next
    \/ \E s \in Slots, h \in HostTokenInputs,
          o \in UnevenGenOutcomes(room.questions_per_round) : start_game(s, h, o)
    \/ \E s \in Slots : \E o \in UnevenGenOutcomes(req[s].questions_per_round) :
          submit_topic_generate(s, o)

SpecBatches == Init /\ [][NextBatches]_vars

\* The same room as in Spec, whose leaderboard is read at any time.
NextLeaderboard ==
    \/ Next
    \/ get_leaderboard

SpecLeaderboard == Init /\ [][NextLeaderboard]_vars

\* A room that is created, joined, started and answered in, with several sockets.
NextClients ==
    \/ Creates
    \/ Joins
    \/ \E s \in Slots, h \in HostTokenInputs,
          o \in GenOutcomes(room.questions_per_round) : start_game(s, h, o)
    \/ \E s \in Slots : start_game_commit(s)
    \/ \E s \in Slots, t \in PlayerTokenInputs, q \in QuestionIdInputs,
          a \in AnswerInputs : submit_answer(s, t, q, a)
    \/ \E s \in Slots : submit_answer_record(s)
    \/ \E c \in Clients : connect(c)
    \/ \E c \in Clients : disconnect(c)

SpecClients == Init /\ [][NextClients]_vars

\* The sockets of a room and the broadcasts its requests issue, send by send.
NextBroadcasts ==
    \/ \E c \in Clients : connect(c)
    \/ \E c \in Clients : disconnect(c)
    \/ \E m \in Broadcasts : broadcast_to_room(m)
    \/ \E m \in Broadcasts, c \in Clients, o \in SendOutcomes :
          send_to_connection(m, c, o)
    \/ \E m \in Broadcasts : broadcast_to_room_return(m)

SpecBroadcasts == Init /\ [][NextBroadcasts]_vars

\* The same sockets and broadcasts, with sockets that are opened for another room.
NextRooms ==
    \/ NextBroadcasts
    \/ \E c \in Clients : connect_other(c)
    \/ \E c \in Clients : disconnect_other(c)

SpecRooms == Init /\ [][NextRooms]_vars
====
